---- MODULE Spec2Model ----
(***************************************************************************)
(* A model of MerkleTree.js: the MerkleTree class (constructor,            *)
(* generateTree, getProof, getMerkleRoot, verify), the Node class, and the *)
(* calls the test driver makes on them.                                    *)
(*                                                                         *)
(* Node objects live in a heap: `heap[id]` is the `data` field of the Node *)
(* whose identity is `id`.  this.nodes, this.layers and the `sibling`      *)
(* field of a proof step hold Node references (ids), as in the source.     *)
(*                                                                         *)
(* SHA-256 is modelled as a collision-free hash: the digest of `data` is   *)
(* the term <<"sha256", data>>.  A Node's data is either a caller payload  *)
(* <<"raw", k>> or the 64-byte concatenation of two digests                *)
(* <<"cat", d1, d2>>.                                                      *)
(***************************************************************************)
EXTENDS Integers, Sequences, FiniteSets, TLC

VARIABLES
    pc,              \* "new" before the constructor has run, "built" after,
                     \* "thrown" once a call has thrown
    input,           \* the payload list the caller maps to leaves (Test.js `data`)
    heap,            \* Node objects: heap[id] is the Node's `data`
    nodes,           \* this.nodes
    layers,          \* this.layers
    dataInQuestion,  \* the payload of the caller's last getProof or verify call
    proof,           \* the proof the caller holds (last value returned by getProof)
    op,              \* the last operation called
    ret,             \* what the last operation returned or threw
    tampers          \* how many times the caller overwrote a sibling's data

vars == <<pc, input, heap, nodes, layers, dataInQuestion, proof, op, ret, tampers>>

(***************************************************************************)
(* Bounds of the model.                                                    *)
(***************************************************************************)
MaxLeaves == 7      \* longest leaf list given to the constructor
MaxTampers == 1     \* sibling overwrites per behaviour
MaxForgedLen == 1   \* longest caller-made proof

(***************************************************************************)
(* Values.                                                                 *)
(***************************************************************************)
Undefined == 0                      \* JavaScript `undefined` where a Node reference is expected
Raw(k) == <<"raw", k>>              \* a caller payload; Raw(0) is the outsider 'x' / 'z'
Outsider == Raw(0)
Payloads == {Raw(k) : k \in 0..MaxLeaves}

\* What the caller overwrites a sibling's data with: the outsider 'x' (as
\* Test.js does) or the first payload
TamperData == {Raw(0), Raw(1)}

\* crypto.createHash('SHA256').update(data).digest()
Sha256(data) == <<"sha256", data>>

\* BufferConcat with the left digest written twice: Buffer.concat([a, a])
BufferConcatLeftTwice(a, b) == <<"cat", a, a>>

\* Buffer.concat([a, b]) of two digests
BufferConcat(a, b) == <<"cat", a, b>>

\* Buffer.toString('hex')
ToHex(digest) == <<"hex", digest>>

\* Node: get hash()
NodeHash(h, id) == Sha256(h[id])

(***************************************************************************)
(* generateTree                                                            *)
(***************************************************************************)
\* TargetLayerNumber with Math.floor for Math.ceil
TargetLayerNumberFloor(n) == (n \div 2) + 1

\* Math.ceil(this.nodes.length / 2) + 1
TargetLayerNumber(n) == ((n + 1) \div 2) + 1

\* The for loop of generateTree: `iterator` is the 0-based index of `left`.
\* A pair allocates a new Node; an unpaired last node is pushed as it is.
RECURSIVE PairLoop(_, _, _, _)
PairLoop(h, leavesCopy, iterator, newLayer) ==
    IF iterator >= Len(leavesCopy)
    THEN [heap |-> h, layer |-> newLayer]
    ELSE LET left == leavesCopy[iterator + 1]
             right == IF iterator + 2 <= Len(leavesCopy)
                      THEN leavesCopy[iterator + 2] ELSE Undefined
         IN IF right = Undefined
            THEN PairLoop(h, leavesCopy, iterator + 2, Append(newLayer, left))
            ELSE LET leaf == BufferConcat(NodeHash(h, left), NodeHash(h, right))
                 IN PairLoop(Append(h, leaf), leavesCopy, iterator + 2,
                             Append(newLayer, Len(h) + 1))

\* The while loop of generateTree.
RECURSIVE LayerLoop(_, _, _, _)
LayerLoop(h, lays, leavesCopy, targetLayerNumber) ==
    IF Len(lays) < targetLayerNumber
    THEN LET r == PairLoop(h, leavesCopy, 0, <<>>)
         IN LayerLoop(r.heap, Append(lays, r.layer), r.layer, targetLayerNumber)
    ELSE [heap |-> h, layers |-> lays]

GenerateTree(h, ns) ==
    LayerLoop(h, <<ns>>, ns, TargetLayerNumber(Len(ns)))

\* getMerkleRoot throws a TypeError on an empty top layer: layers[last][0]
\* is undefined there and has no .hash
RootThrows(lays) == Len(lays[Len(lays)]) = 0

\* getMerkleRoot
GetMerkleRoot(h, lays) == ToHex(NodeHash(h, lays[Len(lays)][1]))

(***************************************************************************)
(* The caller's inputs.                                                    *)
(***************************************************************************)
\* Leaf lists: payload i at position i, except that the second or the third
\* leaf may repeat the first payload.
LeafList(n, dups) == [i \in 1..n |-> IF i \in dups THEN Raw(1) ELSE Raw(i)]

Inputs == {LeafList(n, dups) : n \in 0..MaxLeaves, dups \in {{}, {2}, {3}}}

(***************************************************************************)
(* Actions.  An exception no one catches ends the caller's script, as it   *)
(* would end Test.js: pc becomes "thrown" and nothing more is called.      *)
(***************************************************************************)
Init ==
    /\ pc = "new"
    /\ input = <<>>
    /\ heap = <<>>
    /\ nodes = <<>>
    /\ layers = <<>>
    /\ dataInQuestion = Outsider
    /\ proof = <<>>
    /\ op = "none"
    /\ ret = "none"
    /\ tampers = 0

\* const leaves = data.map(data => new Node(data)); new MerkleTree(leaves)
Construct(data) ==
    /\ pc = "new"
    /\ LET leaves == [i \in 1..Len(data) |-> i]
           t == GenerateTree(data, leaves)
       IN /\ heap' = t.heap
          /\ nodes' = leaves
          /\ layers' = t.layers
    /\ input' = data
    /\ pc' = "built"
    /\ op' = "construct"
    /\ ret' = "tree"
    /\ UNCHANGED <<dataInQuestion, proof, tampers>>

(***************************************************************************)
(* getProof                                                                *)
(***************************************************************************)
\* The linear search of getProof: the first 0-based index whose leaf has the
\* digest of rawData, -1 when there is none.
RECURSIVE SearchLoop(_, _, _, _)
SearchLoop(h, ns, rawDataArg, index) ==
    IF index >= Len(ns)
    THEN -1
    ELSE IF ToHex(NodeHash(h, ns[index + 1])) = ToHex(Sha256(rawDataArg))
         THEN index
         ELSE SearchLoop(h, ns, rawDataArg, index + 1)

\* layer[sibling]: undefined when the index is out of range
At(layer, i) == IF i >= 0 /\ i < Len(layer) THEN layer[i + 1] ELSE Undefined

\* MoveUp without the "- 1": Math.ceil(positionIndex / 2)
MoveUpCeil(positionIndex) == (positionIndex + 1) \div 2

\* positionIndex = positionIndex / 2, and Math.ceil(positionIndex) - 1 when
\* that is no integer
MoveUp(positionIndex) ==
    IF positionIndex % 2 = 0
    THEN positionIndex \div 2
    ELSE ((positionIndex + 1) \div 2) - 1

\* SiblingIndex that takes the next node whatever the side
SiblingIndexAlwaysNext(positionIndex) == positionIndex + 1

\* The sibling's index in the layer
SiblingIndex(positionIndex) ==
    IF positionIndex % 2 = 0 THEN positionIndex + 1 ELSE positionIndex - 1

\* The side recorded in the step: the side the sibling is on
HashPositionIndicator(positionIndex) ==
    IF positionIndex % 2 = 0 THEN "right" ELSE "left"

\* The second for loop of getProof, over layers 0 .. layers.length - 2.
RECURSIVE PathLoop(_, _, _, _)
PathLoop(lays, index, positionIndex, acc) ==
    IF index >= Len(lays) - 1
    THEN acc
    ELSE LET layer == lays[index + 1]
             step == [hashPositionIndicator |-> HashPositionIndicator(positionIndex),
                      sibling |-> At(layer, SiblingIndex(positionIndex))]
         IN PathLoop(lays, index + 1, MoveUp(positionIndex), Append(acc, step))

\* GetProofOf whose search starts at index 1
GetProofOfSkipFirst(h, ns, lays, rawDataArg) ==
    LET positionIndex == SearchLoop(h, ns, rawDataArg, 1)
    IN IF positionIndex = -1
       THEN [thrown |-> TRUE, proof |-> <<>>]
       ELSE [thrown |-> FALSE, proof |-> PathLoop(lays, 0, positionIndex, <<>>)]

\* getProof(rawData): the proof, or the thrown error
GetProofOf(h, ns, lays, rawDataArg) ==
    LET positionIndex == SearchLoop(h, ns, rawDataArg, 0)
    IN IF positionIndex = -1
       THEN [thrown |-> TRUE, proof |-> <<>>]
       ELSE [thrown |-> FALSE, proof |-> PathLoop(lays, 0, positionIndex, <<>>)]

(***************************************************************************)
(* verify                                                                  *)
(***************************************************************************)
\* The for loop of verify.  `data` is the data of the current Node; reading
\* sibling.hash of an undefined sibling throws a TypeError.
RECURSIVE FoldLoop(_, _, _, _)
FoldLoop(h, data, pr, index) ==
    IF index >= Len(pr)
    THEN [thrown |-> FALSE, data |-> data]
    ELSE LET sibling == pr[index + 1].sibling
             position == pr[index + 1].hashPositionIndicator
         IN IF position = "left"
            THEN IF sibling = Undefined
                 THEN [thrown |-> TRUE, data |-> data]
                 ELSE FoldLoop(h, BufferConcat(NodeHash(h, sibling), Sha256(data)),
                               pr, index + 1)
            ELSE IF sibling = Undefined
                 THEN FoldLoop(h, data, pr, index + 1)
                 ELSE FoldLoop(h, BufferConcat(Sha256(data), NodeHash(h, sibling)),
                               pr, index + 1)

\* verify(rawData, proof, merkleRoot): "true", "false" or the thrown TypeError
VerifyOf(h, rawDataArg, pr, merkleRoot) ==
    LET r == FoldLoop(h, rawDataArg, pr, 0)
    IN IF r.thrown THEN "TypeError"
       ELSE IF ToHex(Sha256(r.data)) = merkleRoot THEN "true" ELSE "false"

(***************************************************************************)
(* What a caller can pass.                                                 *)
(***************************************************************************)
NodeIds == 1..Len(heap)

\* Payloads a caller can hand to verify: the plain payloads and the bytes
\* held by any Node of the tree.
KnownData == Payloads \cup {heap[id] : id \in NodeIds}

\* Root strings a caller can claim
KnownRoots == {ToHex(Sha256(d)) : d \in KnownData}

Steps == [hashPositionIndicator : {"left", "right"}, sibling : NodeIds \cup {Undefined}]

\* Proofs a caller can make up
ForgedProofs == UNION {[1..n -> Steps] : n \in 0..MaxForgedLen}

\* const proof = tree.getProof(dataInQuestion)
GetProof ==
    /\ pc = "built"
    /\ \E x \in Payloads :
         /\ LET r == GetProofOf(heap, nodes, layers, x)
            IN IF r.thrown
               THEN /\ ret' = "Error: Element not found"
                    /\ pc' = "thrown"
                    /\ UNCHANGED proof
               ELSE /\ ret' = "proof"
                    /\ pc' = pc
                    /\ proof' = r.proof
         /\ dataInQuestion' = x
    /\ op' = "getProof"
    /\ UNCHANGED <<input, heap, nodes, layers, tampers>>

\* proof[k].sibling.data = v  (Test.js: proof[0].sibling.data = 'x')
TamperSibling ==
    /\ pc = "built"
    /\ tampers < MaxTampers
    /\ \E k \in 1..Len(proof), v \in TamperData :
         /\ proof[k].sibling /= Undefined
         /\ heap' = [heap EXCEPT ![proof[k].sibling] = v]
    /\ tampers' = tampers + 1
    /\ op' = "tamper"
    /\ ret' = "none"
    /\ UNCHANGED <<pc, input, nodes, layers, dataInQuestion, proof>>

\* tree.verify(dataInQuestion, proof, tree.getMerkleRoot())
Verify ==
    /\ pc = "built"
    /\ proof /= <<>>
    /\ ret' = VerifyOf(heap, dataInQuestion, proof, GetMerkleRoot(heap, layers))
    /\ op' = "verify"
    /\ UNCHANGED <<pc, input, heap, nodes, layers, dataInQuestion, proof, tampers>>

\* tree.verify(dataInQuestion, proof, r) with a root other than the tree's
VerifyOtherRoot ==
    /\ pc = "built"
    /\ proof /= <<>>
    /\ \E r \in KnownRoots :
         /\ r /= GetMerkleRoot(heap, layers)
         /\ ret' = VerifyOf(heap, dataInQuestion, proof, r)
    /\ op' = "verifyOtherRoot"
    /\ UNCHANGED <<pc, input, heap, nodes, layers, dataInQuestion, proof, tampers>>

\* tree.verify(x, pr, tree.getMerkleRoot()) as the first call on a new tree:
\* a caller that holds no proof of the tree's and passes a payload and a
\* proof of its own making.  On an empty tree getMerkleRoot throws.
VerifyForged ==
    /\ pc = "built"
    /\ op = "construct"
    /\ \E x \in KnownData, pr \in ForgedProofs :
         /\ ret' = IF RootThrows(layers)
                   THEN "TypeError"
                   ELSE VerifyOf(heap, x, pr, GetMerkleRoot(heap, layers))
         /\ dataInQuestion' = x
    /\ pc' = IF ret' = "TypeError" THEN "thrown" ELSE pc
    /\ op' = IF RootThrows(layers) THEN "getMerkleRoot" ELSE "verifyForged"
    /\ UNCHANGED <<input, heap, nodes, layers, proof, tampers>>

Next ==
    \/ \E data \in Inputs : Construct(data)
    \/ GetProof
    \/ TamperSibling
    \/ Verify
    \/ VerifyOtherRoot
    \/ VerifyForged

Spec == Init /\ [][Next]_vars

(***************************************************************************)
(* Properties.                                                             *)
(***************************************************************************)
Range(seq) == {seq[i] : i \in 1..Len(seq)}

\* A non-empty list of distinct payloads
Distinct(seq) == Len(seq) > 0 /\ Cardinality(Range(seq)) = Len(seq)

\* The tree as the constructor builds it from `input`
Genuine == GenerateTree(input, [i \in 1..Len(input) |-> i])

\* Whether leaf i has the digest of payload x
Matches(i, x) == NodeHash(heap, nodes[i]) = Sha256(x)

\* Some present sibling of the held proof no longer holds the bytes the
\* constructor gave it
SiblingChanged ==
    \E k \in 1..Len(proof) :
        /\ proof[k].sibling /= Undefined
        /\ heap[proof[k].sibling] /= Genuine.heap[proof[k].sibling]

\* C1: on a tree no one has written to, getProof of every payload of the
\* leaf list returns a proof, and verify of that payload, that proof and
\* getMerkleRoot() returns true.
C1_SelfConsistency ==
    /\ (op = "getProof" /\ tampers = 0 /\ dataInQuestion \in Range(input))
          => ret = "proof"
    /\ (op = "verify" /\ tampers = 0) => ret = "true"

\* A leaf of a 7-leaf tree (layers of 7, 4, 2, 1 and 1 nodes) has verified.
C1_Witness ==
    /\ op = "verify" /\ tampers = 0 /\ ret = "true"
    /\ Len(input) = 7 /\ Len(layers) = 5
    /\ dataInQuestion = Raw(7)

\* C2: constructing a tree from an empty leaf list throws EmptyTreeError and
\* never leaves a tree whose layers are [[]].
C2_EmptyTreeError ==
    (op = "construct" /\ Len(input) = 0)
        => (ret = "EmptyTreeError" /\ layers /= << <<>> >>)

\* C3: verify returns true or false for every payload and proof; it never
\* throws.
C3_VerifyNeverThrows ==
    op \in {"verify", "verifyOtherRoot", "verifyForged"} => ret \in {"true", "false"}

\* C4: verify of a payload and its proof returns false once a present sibling
\* of the proof holds other bytes than the tree gave it, and returns false
\* for a claimed root other than the tree's.
C4_TamperSensitivity ==
    /\ (op = "verify" /\ SiblingChanged) => ret = "false"
    /\ (op = "verifyOtherRoot" /\ tampers = 0) => ret = "false"

\* The proof of a leaf was tampered with as Test.js does, and verify ran.
C4_Witness ==
    /\ op = "verify" /\ tampers > 0 /\ SiblingChanged /\ ret = "false"
    /\ dataInQuestion \in Range(input)

\* C5: whatever the caller does with the proofs it got, the tree's nodes and
\* layers stay as built, and every payload of the leaf list still has a
\* proof that verifies against getMerkleRoot().
C5_TreeImmutable ==
    (pc = "built" /\ Distinct(input)) =>
        /\ heap = Genuine.heap
        /\ layers = Genuine.layers
        /\ \A p \in Range(input) :
              LET r == GetProofOf(heap, nodes, layers, p)
              IN /\ ~r.thrown
                 /\ VerifyOf(heap, p, r.proof, GetMerkleRoot(heap, layers)) = "true"

\* C6: getProof throws the not-found error exactly when no leaf has the
\* digest of the payload, and returns a proof otherwise.
C6_NotFound ==
    op = "getProof" =>
        IF \E i \in 1..Len(nodes) : Matches(i, dataInQuestion)
        THEN ret = "proof" /\ pc = "built"
        ELSE ret = "Error: Element not found" /\ pc = "thrown"

\* getProof('z') on a tree of four distinct leaves threw.
C6_Witness ==
    /\ op = "getProof" /\ ret = "Error: Element not found"
    /\ Len(input) = 4 /\ dataInQuestion = Outsider

\* The pairing rule: `upper` is `lower` paired up, an unpaired last node
\* being the same Node, not a new one.
PairedUp(lower, upper) ==
    /\ Len(upper) = (Len(lower) + 1) \div 2
    /\ \A k \in 1..Len(upper) :
          IF 2 * k <= Len(lower)
          THEN heap[upper[k]] = BufferConcat(Sha256(heap[lower[2 * k - 1]]),
                                             Sha256(heap[lower[2 * k]]))
          ELSE upper[k] = lower[2 * k - 1]

\* C7: for a non-empty leaf list the tree as built has the leaves, in the
\* caller's order, as layers[0], every next layer is the layer below paired
\* up, and the last layer has one node, whose digest is the root.
C7_LayerLadder ==
    (pc /= "new" /\ tampers = 0 /\ Len(input) > 0) =>
        /\ layers[1] = nodes
        /\ Len(nodes) = Len(input)
        /\ \A i \in 1..Len(input) : heap[layers[1][i]] = input[i]
        /\ \A i \in 1..(Len(layers) - 1) : PairedUp(layers[i], layers[i + 1])
        /\ Len(layers[Len(layers)]) = 1
        /\ GetMerkleRoot(heap, layers) = ToHex(Sha256(heap[layers[Len(layers)][1]]))

\* A 5-leaf tree was built: the fifth leaf is carried over twice.
C7_Witness ==
    /\ pc = "built" /\ tampers = 0 /\ op = "construct"
    /\ Len(input) = 5 /\ Len(layers) = 4
    /\ layers[3][2] = layers[1][5]

\* C8: for more than one leaf, the top layer is the only layer of one node.
C8_StopsAtFirstSingleton ==
    (pc /= "new" /\ Len(input) > 1) =>
        \A i \in 1..(Len(layers) - 1) : Len(layers[i]) /= 1

\* The 0-based index of the first leaf with the digest of x
FirstMatch(x) ==
    (CHOOSE i \in 1..Len(nodes) :
        Matches(i, x) /\ \A j \in 1..(i - 1) : ~Matches(j, x)) - 1

\* C9: a proof has one step per layer below the top one; the step of layer L
\* has no sibling exactly when the node on the leaf's path in that layer is
\* the unpaired last node of an odd-length layer; a step whose side is left
\* has a sibling.
C9_ProofShape ==
    (op = "getProof" /\ ret = "proof") =>
        /\ Len(proof) = Len(layers) - 1
        /\ \A L \in 1..Len(proof) :
              LET idx == FirstMatch(dataInQuestion) \div (2 ^ (L - 1))
                  lonely == /\ Len(layers[L]) % 2 = 1
                            /\ idx = Len(layers[L]) - 1
              IN /\ (proof[L].sibling = Undefined) <=> lonely
                 /\ proof[L].hashPositionIndicator = "left"
                       => proof[L].sibling /= Undefined

\* The proof of the fifth of five leaves: its first two steps have no sibling.
C9_Witness ==
    /\ op = "getProof" /\ ret = "proof"
    /\ Len(input) = 5 /\ dataInQuestion = Raw(5)
    /\ Len(proof) = 3
    /\ proof[1].sibling = Undefined
    /\ proof[2].sibling = Undefined
    /\ proof[3].hashPositionIndicator = "left"

\* C10: verify against the tree's root returns true only for a payload of
\* the leaf list.
C10_InclusionSound ==
    (op = "verifyForged" /\ ret = "true" /\ Distinct(input))
        => dataInQuestion \in Range(input)

====
